---- MODULE Spec2Model ----
(***************************************************************************)
(* A model of the stream codec pipeline (pdf/core/stream.go), the          *)
(* positional reader of PdfParser, the reference resolver exercised by the *)
(* fuzz regression tests, and CubicBezierPath (package draw).              *)
(***************************************************************************)
EXTENDS Integers, Sequences, FiniteSets, TLC

VARIABLES
    dict,       \* streamObj.PdfObjectDictionary: key -> object (NilObj = no entry)
    Stream,     \* streamObj.Stream: the payload bytes
    last,       \* the last call made on the stream object and how it ended
    size,       \* the byte source (parser.rs): its length
    rsPos,      \* the byte source's seek position
    buffered,   \* parser.reader.Buffered(): bytes read ahead and not yet consumed
    anchor,     \* the offset given to the last SetFileOffset (0 for a new parser)
    consumed,   \* bytes handed to the caller since then
    ral,        \* the ReadAtLeast call in progress: its locals
    ralResult,  \* what the last ReadAtLeast call returned
    got,        \* what the last GetFileOffset call returned
    xrefs,      \* parser.xrefs: object number -> storage offset
    objs,       \* the document: the indirect object stored at each offset
    stack,      \* the ParseIndirectObject calls in progress, innermost last
    inProgress, \* parser.streamLengthReferenceLookupInProgress
    parse,      \* the top-level call in progress or last completed
    traced,     \* what the last Trace call returned
    heap,       \* the backing arrays of the []CubicBezierCurve slices
    paths,      \* the CubicBezierPath values the caller holds, by variable
    lastPath    \* the last call made on a path and what it returned

streamVars == <<dict, Stream, last>>

pathVars == <<heap, paths, lastPath>>

parserVars == <<xrefs, objs, stack, inProgress, parse, traced>>

readerVars == <<size, rsPos, buffered, anchor, consumed, ral, ralResult, got>>

vars == <<streamVars, readerVars, parserVars, pathVars>>

\* what each component leaves alone
notStream == <<readerVars, parserVars, pathVars>>

notReader == <<streamVars, parserVars, pathVars>>

notParser == <<streamVars, readerVars, pathVars>>

notPath == <<streamVars, readerVars, parserVars>>

-----------------------------------------------------------------------------
(* Bounds of the model *)

\* longest payload a stream object starts with, and longest payload encoded
MaxPayload == 2
\* largest byte value of an initial payload
MaxByte == 1
\* longest Filter array
MaxArray == 2
\* longest byte source
MaxFile == 3
\* largest offset sought
MaxOff == 4
\* longest buffer handed to a read
MaxBuf == 3
\* size of the buffered reader's buffer
BufSize == 2
\* largest storage offset that holds an indirect object
MaxOffset == 1
\* deepest nesting of ParseIndirectObject calls the stack has room for
MaxDepth == 4
\* most backing arrays allocated
MaxArrays == 2
\* most curves in a path
MaxCurves == 2
\* largest coordinate, either sign
MaxCoord == 1

-----------------------------------------------------------------------------
(* Object model: PdfObject values *)

NoSeq == <<>>

NilObj == [kind |-> "nil", name |-> "", num |-> 0, elems |-> NoSeq]

MakeNull == [kind |-> "Null", name |-> "", num |-> 0, elems |-> NoSeq]

MakeName(s) == [kind |-> "Name", name |-> s, num |-> 0, elems |-> NoSeq]

MakeInteger(n) == [kind |-> "Integer", name |-> "", num |-> n, elems |-> NoSeq]

MakeReference(n) == [kind |-> "Reference", name |-> "", num |-> n, elems |-> NoSeq]

MakeArray(s) == [kind |-> "Array", name |-> "", num |-> 0, elems |-> s]

StreamEncodingFilterNameFlate == "FlateDecode"
StreamEncodingFilterNameLZW == "LZWDecode"
StreamEncodingFilterNameDCT == "DCTDecode"
StreamEncodingFilterNameRunLength == "RunLengthDecode"
StreamEncodingFilterNameASCIIHex == "ASCIIHexDecode"
StreamEncodingFilterNameASCII85 == "ASCII85Decode"
StreamEncodingFilterNameCCITTFax == "CCITTFaxDecode"
StreamEncodingFilterNameJBIG2 == "JBIG2Decode"
StreamEncodingFilterNameJPX == "JPXDecode"

RecognizedNames ==
    { StreamEncodingFilterNameFlate, StreamEncodingFilterNameLZW,
      StreamEncodingFilterNameDCT, StreamEncodingFilterNameRunLength,
      StreamEncodingFilterNameASCIIHex, StreamEncodingFilterNameASCII85,
      StreamEncodingFilterNameCCITTFax, StreamEncodingFilterNameJBIG2,
      StreamEncodingFilterNameJPX }

\* a filter name of the format that the dispatch does not know
UnknownName == "Crypt"

-----------------------------------------------------------------------------
(* Encoders *)

\* a leaf encoder; EarlyChange is meaningful for LZW only
Encoder(n, ec) == [name |-> n, EarlyChange |-> ec, encoders |-> NoSeq]

NewRawEncoder == Encoder("Raw", 0)

MultiEncoder(encs) == [name |-> "Multi", EarlyChange |-> 0, encoders |-> encs]

NoEncoder == Encoder("none", 0)

Ok(enc) == [status |-> "ok", enc |-> enc]

Err == [status |-> "err", enc |-> NoEncoder]

Panic == [status |-> "panic", enc |-> NoEncoder]

\* the EarlyChange parameter an LZW encoder is built with: the dictionary's
\* entry, 1 when there is none
LZWEarlyChange(d) ==
    IF d["EarlyChange"].kind = "Integer" THEN d["EarlyChange"].num ELSE 1

\* the constructors that read the stream's dictionary return (encoder, error);
\* built says whether the dictionary's filter parameters were acceptable
newFlateEncoderFromStream(d, built) ==
    IF built THEN Ok(Encoder(StreamEncodingFilterNameFlate, 0)) ELSE Err

newLZWEncoderFromStream(d, built) ==
    IF built THEN Ok(Encoder(StreamEncodingFilterNameLZW, LZWEarlyChange(d))) ELSE Err

newDCTEncoderFromStream(d, built) ==
    IF built THEN Ok(Encoder(StreamEncodingFilterNameDCT, 0)) ELSE Err

newRunLengthEncoderFromStream(d, built) ==
    IF built THEN Ok(Encoder(StreamEncodingFilterNameRunLength, 0)) ELSE Err

\* the if/else chain on the filter name
DispatchName(method, d, built) ==
    IF method = StreamEncodingFilterNameFlate THEN newFlateEncoderFromStream(d, built)
    ELSE IF method = StreamEncodingFilterNameLZW THEN newLZWEncoderFromStream(d, built)
    ELSE IF method = StreamEncodingFilterNameDCT THEN newDCTEncoderFromStream(d, built)
    ELSE IF method = StreamEncodingFilterNameRunLength
        THEN newRunLengthEncoderFromStream(d, built)
    ELSE IF method = StreamEncodingFilterNameASCIIHex
        THEN Ok(Encoder(StreamEncodingFilterNameASCIIHex, 0))
    ELSE IF method = StreamEncodingFilterNameASCII85
        THEN Ok(Encoder(StreamEncodingFilterNameASCII85, 0))
    ELSE IF method = StreamEncodingFilterNameCCITTFax
        THEN Ok(Encoder(StreamEncodingFilterNameCCITTFax, 0))
    ELSE IF method = StreamEncodingFilterNameJBIG2
        THEN Ok(Encoder(StreamEncodingFilterNameJBIG2, 0))
    ELSE IF method = StreamEncodingFilterNameJPX
        THEN Ok(Encoder(StreamEncodingFilterNameJPX, 0))
    ELSE Panic

\* one member of a multi-filter array: a recognized Name builds its encoder,
\* anything else fails the construction with an error
MultiMember(o, d, built) ==
    IF o.kind = "Name" /\ o.name \in RecognizedNames
    THEN DispatchName(o.name, d, built)
    ELSE Err

newMultiEncoderFromStream(d, built) ==
    LET arr == d["Filter"].elems
        res == [i \in 1..Len(arr) |-> MultiMember(arr[i], d, built)]
    IN  IF \A i \in 1..Len(arr) : res[i].status = "ok"
        THEN Ok(MultiEncoder([i \in 1..Len(arr) |-> res[i].enc]))
        ELSE Err

\* ArrayFilter without the empty-array case
ArrayFilter_NoEmptyCase(array, d, built) ==
    IF Len(array) # 1 THEN newMultiEncoderFromStream(d, built)
    ELSE IF array[1].kind # "Name" THEN Err
    ELSE DispatchName(array[1].name, d, built)

\* the Filter entry is an Array: empty, one member, or a chain
ArrayFilter(array, d, built) ==
    IF Len(array) = 0 THEN Ok(NewRawEncoder)
    ELSE IF Len(array) # 1 THEN newMultiEncoderFromStream(d, built)
    ELSE IF array[1].kind # "Name" THEN Err
    ELSE DispatchName(array[1].name, d, built)

NewEncoderFromStream(d, built) ==
    LET filterObj == d["Filter"]
    IN  IF filterObj = NilObj THEN Ok(NewRawEncoder)
        ELSE IF filterObj.kind = "Null" THEN Ok(NewRawEncoder)
        ELSE IF filterObj.kind = "Name" THEN DispatchName(filterObj.name, d, built)
        ELSE IF filterObj.kind # "Array" THEN Err
        ELSE ArrayFilter(filterObj.elems, d, built)

-----------------------------------------------------------------------------
(* The codecs behind the StreamEncoder interface *)

Bytes(ok, out) == [ok |-> ok, out |-> out]

HexChar(h) == IF h < 10 THEN 48 + h ELSE 55 + h

RECURSIVE ASCIIHexEncode(_)
\* every byte as two upper-case hex digits and a space, then '>'
ASCIIHexEncode(data) ==
    IF data = <<>> THEN <<62>>
    ELSE <<HexChar(Head(data) \div 16), HexChar(Head(data) % 16), 32>>
             \o ASCIIHexEncode(Tail(data))

HexValue(c) ==
    IF c >= 48 /\ c <= 57 THEN c - 48
    ELSE IF c >= 65 /\ c <= 70 THEN c - 55
    ELSE -1

RECURSIVE ASCIIHexDecode(_)
ASCIIHexDecode(data) ==
    IF data = <<>> THEN Bytes(FALSE, <<>>)
    ELSE IF Head(data) = 62 THEN Bytes(TRUE, <<>>)
    ELSE IF Len(data) < 3 \/ HexValue(data[1]) < 0 \/ HexValue(data[2]) < 0
            \/ data[3] # 32
        THEN Bytes(FALSE, <<>>)
    ELSE LET rest == ASCIIHexDecode(SubSeq(data, 4, Len(data)))
         IN  Bytes(rest.ok, <<HexValue(data[1]) * 16 + HexValue(data[2])>> \o rest.out)

\* the other codecs are opaque: the model marks their output with a header
\* byte naming the codec, so that output and input differ in content and length
CodecTag(n) ==
    CASE n = StreamEncodingFilterNameFlate -> 120
      [] n = StreamEncodingFilterNameLZW -> 128
      [] n = StreamEncodingFilterNameDCT -> 255
      [] n = StreamEncodingFilterNameRunLength -> 129
      [] n = StreamEncodingFilterNameASCII85 -> 126
      [] n = StreamEncodingFilterNameCCITTFax -> 1
      [] n = StreamEncodingFilterNameJBIG2 -> 151
      [] n = StreamEncodingFilterNameJPX -> 79
      [] OTHER -> 0

\* EncodeBytes of a leaf encoder; codecOk is the codec's own verdict on the
\* data and its parameters.  LZW has no write support for EarlyChange 1.
LeafEncodeBytes(enc, data, codecOk) ==
    IF enc.name = "Raw" THEN Bytes(TRUE, data)
    ELSE IF ~codecOk THEN Bytes(FALSE, <<>>)
    ELSE IF enc.name = StreamEncodingFilterNameLZW /\ enc.EarlyChange = 1
        THEN Bytes(FALSE, <<>>)
    ELSE IF enc.name = StreamEncodingFilterNameASCIIHex
        THEN Bytes(TRUE, ASCIIHexEncode(data))
    ELSE Bytes(TRUE, <<CodecTag(enc.name)>> \o data)

LeafDecodeBytes(enc, data, codecOk) ==
    IF enc.name = "Raw" THEN Bytes(TRUE, data)
    ELSE IF ~codecOk THEN Bytes(FALSE, <<>>)
    ELSE IF enc.name = StreamEncodingFilterNameASCIIHex THEN ASCIIHexDecode(data)
    ELSE IF data # <<>> /\ Head(data) = CodecTag(enc.name)
        THEN Bytes(TRUE, Tail(data))
    ELSE Bytes(FALSE, <<>>)

RECURSIVE MultiEncodeBytes(_, _, _)
\* the chain applied in array order
MultiEncodeBytes(encs, data, codecOk) ==
    IF encs = <<>> THEN Bytes(TRUE, data)
    ELSE LET r == LeafEncodeBytes(Head(encs), data, codecOk)
         IN  IF r.ok THEN MultiEncodeBytes(Tail(encs), r.out, codecOk) ELSE r

RECURSIVE MultiDecodeBytes(_, _, _)
\* the inverse of the chain: the last filter of the array is undone first
MultiDecodeBytes(encs, data, codecOk) ==
    IF encs = <<>> THEN Bytes(TRUE, data)
    ELSE LET r == LeafDecodeBytes(encs[Len(encs)], data, codecOk)
         IN  IF r.ok
             THEN MultiDecodeBytes(SubSeq(encs, 1, Len(encs) - 1), r.out, codecOk)
             ELSE r

EncodeBytes(enc, data, codecOk) ==
    IF enc.name = "Multi" THEN MultiEncodeBytes(enc.encoders, data, codecOk)
    ELSE LeafEncodeBytes(enc, data, codecOk)

DecodeBytes(enc, data, codecOk) ==
    IF enc.name = "Multi" THEN MultiDecodeBytes(enc.encoders, data, codecOk)
    ELSE LeafDecodeBytes(enc, data, codecOk)

-----------------------------------------------------------------------------
(* The stream codec pipeline *)

\* what a call leaves behind: how it ended, the stream object after it, the
\* encoder it selected and the bytes it produced
Outcome(o, d, s, enc, out) ==
    [outcome |-> o, dict |-> d, Stream |-> s, enc |-> enc, out |-> out]

\* encoder.(*LZWEncoder): the selected encoder is itself the LZW encoder
IsLZWEncoder(enc) == enc.name = StreamEncodingFilterNameLZW

\* lzwenc.EarlyChange = 0
ForceEarlyChange(enc) ==
    IF IsLZWEncoder(enc) THEN [enc EXCEPT !.EarlyChange = 0] ELSE enc

\* streamObj.PdfObjectDictionary.Set("EarlyChange", MakeInteger(0))
SetEarlyChange(d, enc) ==
    IF IsLZWEncoder(enc) THEN [d EXCEPT !["EarlyChange"] = MakeInteger(0)] ELSE d

\* streamObj.Stream = encoded
StorePayload(s, encoded) == encoded

\* UpdateLength that leaves the Length entry as it was
UpdateLength_Stale(d, encoded) == d

\* streamObj.PdfObjectDictionary.Set("Length", MakeInteger(int64(len(encoded))))
UpdateLength(d, encoded) == [d EXCEPT !["Length"] = MakeInteger(Len(encoded))]

DecodeStreamResult(d, s, built, codecOk) ==
    LET sel == NewEncoderFromStream(d, built)
    IN  IF sel.status # "ok" THEN Outcome(sel.status, d, s, sel.enc, <<>>)
        ELSE LET r == DecodeBytes(sel.enc, s, codecOk)
             IN  IF ~r.ok THEN Outcome("err", d, s, sel.enc, <<>>)
                 ELSE Outcome("ok", d, s, sel.enc, r.out)

EncodeStreamResult(d, s, built, codecOk) ==
    LET sel == NewEncoderFromStream(d, built)
    IN  IF sel.status # "ok" THEN Outcome(sel.status, d, s, sel.enc, <<>>)
        ELSE LET encoder == ForceEarlyChange(sel.enc)
                 d1 == SetEarlyChange(d, sel.enc)
                 r == EncodeBytes(encoder, s, codecOk)
             IN  IF ~r.ok THEN Outcome("err", d1, s, encoder, <<>>)
                 ELSE Outcome("ok", UpdateLength(d1, r.out), StorePayload(s, r.out),
                              encoder, r.out)

Call(op, pd, ps, res) ==
    [op |-> op, outcome |-> res.outcome, preDict |-> pd, preStream |-> ps,
     enc |-> res.enc, out |-> res.out]

NoCall == [op |-> "none", outcome |-> "ok",
           preDict |-> [k \in {"Filter", "Length", "EarlyChange"} |-> NilObj],
           preStream |-> <<>>, enc |-> NoEncoder, out |-> <<>>]

\* a panic ends the process: nothing runs after it
Running == last.outcome # "panic"

SelectEncoder(built) ==
    /\ Running
    /\ LET sel == NewEncoderFromStream(dict, built)
       IN  last' = Call("NewEncoderFromStream", dict, Stream,
                        Outcome(sel.status, dict, Stream, sel.enc, <<>>))
    /\ UNCHANGED <<dict, Stream>>
    /\ UNCHANGED notStream

DecodeStream(built, codecOk) ==
    /\ Running
    /\ LET res == DecodeStreamResult(dict, Stream, built, codecOk)
       IN  /\ last' = Call("DecodeStream", dict, Stream, res)
           /\ dict' = res.dict
           /\ Stream' = res.Stream
    /\ UNCHANGED notStream

EncodeStream(built, codecOk) ==
    /\ Running
    /\ Len(Stream) <= MaxPayload
    /\ LET res == EncodeStreamResult(dict, Stream, built, codecOk)
       IN  /\ last' = Call("EncodeStream", dict, Stream, res)
           /\ dict' = res.dict
           /\ Stream' = res.Stream
    /\ UNCHANGED notStream

-----------------------------------------------------------------------------
(* The stream objects the model starts from *)

RECURSIVE SeqsUpTo(_, _)
SeqsUpTo(S, n) ==
    IF n = 0 THEN {<<>>}
    ELSE LET shorter == SeqsUpTo(S, n - 1)
         IN  shorter \cup {Append(s, x) : s \in shorter, x \in S}

AllNames == RecognizedNames \cup {UnknownName}

\* what a longer Filter array is built from
ChainMembers ==
    { MakeName(StreamEncodingFilterNameASCIIHex), MakeName(StreamEncodingFilterNameLZW),
      MakeName(UnknownName), MakeInteger(0) }

FilterChoices ==
    {NilObj, MakeNull, MakeInteger(0), MakeArray(<<>>)}
        \cup {MakeName(n) : n \in AllNames}
        \cup {MakeArray(<<MakeName(n)>>) : n \in AllNames}
        \cup {MakeArray(<<MakeInteger(0)>>)}
        \cup {MakeArray(s) : s \in {t \in SeqsUpTo(ChainMembers, MaxArray) : Len(t) >= 2}}

LengthChoices == {NilObj, MakeInteger(0), MakeReference(1)}

EarlyChangeChoices == {NilObj, MakeInteger(0), MakeInteger(1)}

StreamKeys == {"Filter", "Length", "EarlyChange"}

InitStream ==
    /\ \E f \in FilterChoices, l \in LengthChoices, e \in EarlyChangeChoices :
           dict = [k \in StreamKeys |->
                      IF k = "Filter" THEN f ELSE IF k = "Length" THEN l ELSE e]
    /\ Stream \in SeqsUpTo(0..MaxByte, MaxPayload)
    /\ last = NoCall

NextStream ==
    \/ \E built \in BOOLEAN : SelectEncoder(built)
    \/ \E built \in BOOLEAN, codecOk \in BOOLEAN : DecodeStream(built, codecOk)
    \/ \E built \in BOOLEAN, codecOk \in BOOLEAN : EncodeStream(built, codecOk)

-----------------------------------------------------------------------------
(* The positional reader: parser.rs under parser.reader (a bufio.Reader) *)

Min(a, b) == IF a < b THEN a ELSE b

NoError == "nil"

\* what one Read of the byte source into a buffer of length L can return:
\* any positive count up to L and up to the end (a short read), end of file,
\* or a failure of the source
SourceReads(L) ==
    (IF rsPos >= size THEN {[k |-> 0, e |-> "EOF"]}
     ELSE {[k |-> k, e |-> NoError] : k \in 1..Min(L, size - rsPos)})
        \cup {[k |-> 0, e |-> "failed"]}

ReadOutcome(n, e, pos, b) == [n |-> n, err |-> e, rsPos |-> pos, buffered |-> b]

\* bufio.Reader.Read(p) with len(p) = L > 0: serves what is buffered; with an
\* empty buffer reads the source once, directly into p when p is at least as
\* large as the buffer, into the buffer otherwise
BufferedReads(L) ==
    IF buffered > 0
    THEN {ReadOutcome(Min(L, buffered), NoError, rsPos, buffered - Min(L, buffered))}
    ELSE IF L >= BufSize
    THEN {ReadOutcome(r.k, r.e, rsPos + r.k, 0) : r \in SourceReads(L)}
    ELSE {IF r.k = 0 THEN ReadOutcome(0, r.e, rsPos, 0)
          ELSE ReadOutcome(Min(L, r.k), NoError, rsPos + r.k, r.k - Min(L, r.k))
            : r \in SourceReads(BufSize)}

\* GetFileOffset without the correction for what is buffered
GetFileOffset_Raw == rsPos

\* offset, _ := rs.Seek(0, SEEK_CUR); offset -= reader.Buffered()
GetFileOffset == rsPos - buffered

\* rs.Seek(offset, SEEK_SET): seeking before the start is an error and leaves
\* the position where it was; the error is dropped
SeekSet(offset) == IF offset < 0 THEN rsPos ELSE offset

NoValue == [valid |-> FALSE, value |-> 0]

Idle == [active |-> FALSE, n |-> 0, plen |-> 0, start |-> 0, remaining |-> 0,
         numRounds |-> 0, failed |-> FALSE]

NoResult == [valid |-> FALSE, n |-> 0, plen |-> 0, count |-> 0, err |-> NoError,
             failed |-> FALSE]

SetFileOffset(offset) ==
    /\ ~ral.active
    /\ rsPos' = SeekSet(offset)
    /\ buffered' = 0
    /\ anchor' = offset
    /\ consumed' = 0
    /\ got' = NoValue
    /\ UNCHANGED <<size, ral, ralResult>>
    /\ UNCHANGED notReader

CallGetFileOffset ==
    /\ ~ral.active
    /\ got' = [valid |-> TRUE, value |-> GetFileOffset]
    /\ UNCHANGED <<size, rsPos, buffered, anchor, consumed, ral, ralResult>>
    /\ UNCHANGED notReader

\* the tokenizer consuming through parser.reader
Read(L) ==
    /\ ~ral.active
    /\ \E o \in BufferedReads(L) :
           /\ rsPos' = o.rsPos
           /\ buffered' = o.buffered
           /\ consumed' = consumed + o.n
    /\ got' = NoValue
    /\ UNCHANGED <<size, anchor, ral, ralResult>>
    /\ UNCHANGED notReader

\* Accumulate that does not advance start
Accumulate_NoStart(st, nRead) ==
    [st EXCEPT !.numRounds = st.numRounds + 1,
               !.remaining = st.remaining - nRead]

\* the loop body after reader.Read returned (nRead, nil)
Accumulate(st, nRead) ==
    [st EXCEPT !.numRounds = st.numRounds + 1,
               !.start = st.start + nRead,
               !.remaining = st.remaining - nRead]

ReadAtLeastBegin(plen, n) ==
    /\ ~ral.active
    /\ ral' = [Idle EXCEPT !.active = TRUE, !.n = n, !.plen = plen, !.remaining = n]
    /\ ralResult' = NoResult
    /\ got' = NoValue
    /\ UNCHANGED <<size, rsPos, buffered, anchor, consumed>>
    /\ UNCHANGED notReader

\* one round of the loop: Read(p[start:]), then return the error or go on
ReadAtLeastRound ==
    /\ ral.active
    /\ ral.remaining > 0
    /\ \E o \in BufferedReads(ral.plen - ral.start) :
           /\ rsPos' = o.rsPos
           /\ buffered' = o.buffered
           /\ consumed' = consumed + o.n
           /\ IF o.err # NoError
              THEN /\ ralResult' = [valid |-> TRUE, n |-> ral.n, plen |-> ral.plen,
                                    count |-> ral.start, err |-> "Failed reading",
                                    failed |-> TRUE]
                   /\ ral' = Idle
              ELSE /\ ral' = Accumulate(ral, o.n)
                   /\ UNCHANGED ralResult
    /\ got' = NoValue
    /\ UNCHANGED <<size, anchor>>
    /\ UNCHANGED notReader

\* remaining <= 0: return start, nil
ReadAtLeastReturn ==
    /\ ral.active
    /\ ral.remaining <= 0
    /\ ralResult' = [valid |-> TRUE, n |-> ral.n, plen |-> ral.plen,
                     count |-> ral.start, err |-> NoError, failed |-> ral.failed]
    /\ ral' = Idle
    /\ UNCHANGED <<size, rsPos, buffered, anchor, consumed, got>>
    /\ UNCHANGED notReader

InitReader ==
    /\ size \in 0..MaxFile
    /\ rsPos = 0
    /\ buffered = 0
    /\ anchor = 0
    /\ consumed = 0
    /\ ral = Idle
    /\ ralResult = NoResult
    /\ got = NoValue

NextReader ==
    \/ \E offset \in -1..MaxOff : SetFileOffset(offset)
    \/ CallGetFileOffset
    \/ \E L \in 1..MaxBuf : Read(L)
    \/ \E plen \in 0..MaxBuf : \E n \in 0..plen : ReadAtLeastBegin(plen, n)
    \/ ReadAtLeastRound
    \/ ReadAtLeastReturn

-----------------------------------------------------------------------------
(* The reference resolver and the parse of one indirect object *)

Offsets == 0..MaxOffset

\* object numbers the cross-reference index may hold, and those referred to
XrefNums == {12, 13}

RefNums == XrefNums \cup {-1}

NoOffset == -1

IndirectObject(num, kind, length) == [num |-> num, kind |-> kind, length |-> length]

\* an indirect object is a plain integer, or a stream whose Length is an
\* integer or a reference
Objects ==
    {IndirectObject(n, "int", MakeInteger(0)) : n \in XrefNums}
        \cup {IndirectObject(n, "stream", l) :
                n \in XrefNums,
                l \in {MakeInteger(3)} \cup {MakeReference(r) : r \in RefNums}}

\* xref, ok := parser.xrefs[objNumber]
Lookup(num) == IF num \in DOMAIN xrefs THEN xrefs[num] ELSE NoOffset

Frame(off) == [off |-> off, waiting |-> FALSE, resolved |-> FALSE, len |-> NilObj]

NoParse == [state |-> "idle", via |-> "none", top |-> NoOffset, err |-> NoError,
            value |-> NilObj]

NoTrace == [valid |-> FALSE, arg |-> NilObj, obj |-> NilObj, err |-> NoError]

MakeStream(length) == [kind |-> "Stream", name |-> "", num |-> 0, elems |-> <<length>>]

\* the value an indirect object parses to; f is the call that parsed it
ValueOf(o, f) ==
    IF o.kind = "int" THEN o.length
    ELSE MakeStream(IF f.resolved THEN f.len ELSE o.length)

\* Cyclic without the guard
Cyclic_Never(ref) == FALSE

\* the cycle guard: the Length reference is already being resolved
Cyclic(ref) == ref.num \in inProgress

\* what Trace does with a reference: "null" for a number the index does not
\* hold, "parse" (at the recorded offset) otherwise
TraceTarget(ref) == IF Lookup(ref.num) = NoOffset THEN "null" ELSE "parse"

\* Dangling that reports the missing object as an error
Dangling_Error(ref) == [valid |-> TRUE, arg |-> ref, obj |-> NilObj, err |-> "not found"]

\* what Trace returns for a reference the index does not hold
Dangling(ref) == [valid |-> TRUE, arg |-> ref, obj |-> MakeNull, err |-> NoError]

\* the call chain ends: the guard set goes with it
Finish(err, value) ==
    /\ stack' = <<>>
    /\ inProgress' = {}
    /\ parse' = [parse EXCEPT !.state = "done", !.err = err, !.value = value]
    /\ traced' = IF parse.via = "trace"
                 THEN [traced EXCEPT !.valid = TRUE, !.err = err,
                                     !.obj = IF err = NoError THEN value ELSE NilObj]
                 ELSE traced

\* the innermost call returns value to its caller, which was resolving Length
Return(value) ==
    IF Len(stack) = 1 THEN Finish(NoError, value)
    ELSE LET parent == stack[Len(stack) - 1]
             ref == objs[parent.off].length
         IN  IF value.kind # "Integer"
             THEN Finish("Stream length needs to be an integer", NilObj)
             ELSE /\ stack' = [SubSeq(stack, 1, Len(stack) - 1) EXCEPT
                                  ![Len(stack) - 1] =
                                      [parent EXCEPT !.waiting = FALSE,
                                                     !.resolved = TRUE,
                                                     !.len = value]]
                  /\ inProgress' = inProgress \ {ref.num}
                  /\ UNCHANGED <<parse, traced>>

\* top-level: parse the indirect object stored at off
ParseIndirectObject(off) ==
    /\ stack = <<>>
    /\ stack' = <<Frame(off)>>
    /\ inProgress' = {}
    /\ parse' = [NoParse EXCEPT !.state = "parsing", !.via = "parse", !.top = off]
    /\ traced' = NoTrace
    /\ UNCHANGED <<xrefs, objs>>
    /\ UNCHANGED notParser

\* top-level: resolve obj
Trace(obj) ==
    /\ stack = <<>>
    /\ IF obj.kind # "Reference"
       THEN /\ traced' = [valid |-> TRUE, arg |-> obj, obj |-> obj, err |-> NoError]
            /\ parse' = NoParse
            /\ stack' = stack
       ELSE IF TraceTarget(obj) = "null"
       THEN /\ traced' = Dangling(obj)
            /\ parse' = NoParse
            /\ stack' = stack
       ELSE /\ traced' = [NoTrace EXCEPT !.arg = obj]
            /\ parse' = [NoParse EXCEPT !.state = "parsing", !.via = "trace",
                                        !.top = Lookup(obj.num)]
            /\ stack' = <<Frame(Lookup(obj.num))>>
    /\ inProgress' = {}
    /\ UNCHANGED <<xrefs, objs>>
    /\ UNCHANGED notParser

\* the innermost ParseIndirectObject call runs on
ParseStep ==
    /\ stack # <<>>
    /\ LET f == stack[Len(stack)]
           o == objs[f.off]
       IN  IF o.kind = "int" THEN Return(ValueOf(o, f))
           ELSE IF f.resolved \/ o.length.kind = "Integer" THEN Return(ValueOf(o, f))
           ELSE IF Cyclic(o.length) THEN Finish("Illegal recursive loop", NilObj)
           ELSE IF TraceTarget(o.length) = "null"
               THEN Finish("Stream length needs to be an integer", NilObj)
           ELSE /\ Len(stack) < MaxDepth
                /\ inProgress' = inProgress \cup {o.length.num}
                /\ stack' = [stack EXCEPT ![Len(stack)] = [f EXCEPT !.waiting = TRUE]]
                                \o <<Frame(Lookup(o.length.num))>>
                /\ UNCHANGED <<parse, traced>>
    /\ UNCHANGED <<xrefs, objs>>
    /\ UNCHANGED notParser

InitParser ==
    /\ objs \in [Offsets -> Objects]
    /\ \E D \in SUBSET XrefNums : xrefs \in [D -> Offsets]
    /\ stack = <<>>
    /\ inProgress = {}
    /\ parse = NoParse
    /\ traced = NoTrace

NextParser ==
    \/ \E off \in Offsets : ParseIndirectObject(off)
    \/ \E obj \in {MakeReference(r) : r \in RefNums} \cup {MakeInteger(0), MakeNull} :
           Trace(obj)
    \/ ParseStep

-----------------------------------------------------------------------------
(* CubicBezierPath: a struct holding a slice of curves *)

NewPoint(x, y) == <<x, y>>

NewCubicBezierCurve(x0, y0, x1, y1, x2, y2, x3, y3) ==
    <<NewPoint(x0, y0), NewPoint(x1, y1), NewPoint(x2, y2), NewPoint(x3, y3)>>

\* the zero value of CubicBezierCurve, which fills unused capacity
ZeroCurve == NewCubicBezierCurve(0, 0, 0, 0, 0, 0, 0, 0)

\* a copy of curve with every point translated
AddOffsetXY(curve, dX, dY) ==
    [i \in 1..4 |-> NewPoint(curve[i][1] + dX, curve[i][2] + dY)]

\* a slice header: the backing array (0: none, capacity 0) and the length
Slice(arr, len) == [arr |-> arr, len |-> len]

Cap(h, sl) == IF sl.arr = 0 THEN 0 ELSE Len(h[sl.arr])

\* the curves a path holds, read through its slice
CurvesOf(h, sl) == [i \in 1..sl.len |-> h[sl.arr][i]]

Ret(h, sl) == [heap |-> h, path |-> sl]

\* the capacity append grows a full slice to
GrowCap(c) == IF c = 0 THEN 1 ELSE 2 * c

\* a new backing array of capacity c starting with elems
NewArray(elems, c) == [i \in 1..c |-> IF i <= Len(elems) THEN elems[i] ELSE ZeroCurve]

\* append(sl, curve): in place when there is capacity, in a new array otherwise
AppendSlice(h, sl, curve) ==
    IF sl.len < Cap(h, sl)
    THEN Ret([h EXCEPT ![sl.arr][sl.len + 1] = curve], Slice(sl.arr, sl.len + 1))
    ELSE Ret(Append(h, NewArray(Append(CurvesOf(h, sl), curve), GrowCap(Cap(h, sl)))),
             Slice(Len(h) + 1, sl.len + 1))

NewCubicBezierPath(h) == Ret(h, Slice(0, 0))

AppendCurve(h, bpath, curve) == AppendSlice(h, bpath, curve)

RECURSIVE CopyCap(_, _)
\* the capacity a slice has after n appends that started at capacity c
CopyCap(c, n) == IF n <= c THEN c ELSE CopyCap(GrowCap(c), n)

\* appends every curve of bpath to a new, empty slice
Copy(h, bpath) ==
    IF bpath.len = 0 THEN Ret(h, Slice(0, 0))
    ELSE Ret(Append(h, NewArray(CurvesOf(h, bpath), CopyCap(0, bpath.len))),
             Slice(Len(h) + 1, bpath.len))

\* bpath.Curves[i] = c.AddOffsetXY(dX, dY) for every i; return bpath.
\* The receiver is passed by value, its slice still names the caller's array.
Offset(h, bpath, dX, dY) ==
    IF bpath.len = 0 THEN Ret(h, bpath)
    ELSE Ret([h EXCEPT ![bpath.arr] =
                 [i \in 1..Len(@) |->
                     IF i <= bpath.len THEN AddOffsetXY(@[i], dX, dY) ELSE @[i]]],
             bpath)

PathNames == {"p", "q"}

CurveChoices ==
    { NewCubicBezierCurve(0, 0, 0, 1, 1, 1, 1, 0),
      NewCubicBezierCurve(-1, 0, 0, 0, 0, 1, 1, 1) }

InRange(curve) ==
    \A i \in 1..4 : \A j \in 1..2 : curve[i][j] >= -MaxCoord /\ curve[i][j] <= MaxCoord

PathCall(op, recv, pre, dX, dY, res) ==
    [op |-> op, recv |-> recv, preCurves |-> pre, dX |-> dX, dY |-> dY,
     result |-> res]

NoPathCall == PathCall("none", Slice(0, 0), <<>>, 0, 0, Slice(0, 0))

\* dst = op(src ...): the call's effect on the heap and on the variable assigned
Assign(op, src, dst, dX, dY, r) ==
    /\ Len(r.heap) <= MaxArrays
    /\ heap' = r.heap
    /\ paths' = [paths EXCEPT ![dst] = r.path]
    /\ lastPath' = PathCall(op, paths[src], CurvesOf(heap, paths[src]), dX, dY, r.path)
    /\ UNCHANGED notPath

CallNewCubicBezierPath(dst) ==
    /\ dst \in PathNames
    /\ Assign("NewCubicBezierPath", dst, dst, 0, 0, NewCubicBezierPath(heap))

CallAppendCurve(src, dst, curve) ==
    /\ paths[src].len < MaxCurves
    /\ Assign("AppendCurve", src, dst, 0, 0, AppendCurve(heap, paths[src], curve))

CallCopy(src, dst) ==
    /\ src \in PathNames
    /\ Assign("Copy", src, dst, 0, 0, Copy(heap, paths[src]))

CallOffset(src, dst, dX, dY) ==
    /\ \A i \in 1..paths[src].len :
           InRange(AddOffsetXY(heap[paths[src].arr][i], dX, dY))
    /\ Assign("Offset", src, dst, dX, dY, Offset(heap, paths[src], dX, dY))

InitPath ==
    /\ heap = <<>>
    /\ paths = [v \in PathNames |-> Slice(0, 0)]
    /\ lastPath = NoPathCall

NextPath ==
    \/ \E dst \in PathNames : CallNewCubicBezierPath(dst)
    \/ \E src \in PathNames, dst \in PathNames, curve \in CurveChoices :
           CallAppendCurve(src, dst, curve)
    \/ \E src \in PathNames, dst \in PathNames : CallCopy(src, dst)
    \/ \E src \in PathNames, dst \in PathNames, dX \in -1..1, dY \in -1..1 :
           CallOffset(src, dst, dX, dY)

-----------------------------------------------------------------------------
(* Specifications *)

\* a component the specification at hand does not exercise holds still in a
\* fixed state
StreamAtRest == dict = NoCall.preDict /\ Stream = <<>> /\ last = NoCall

ReaderAtRest ==
    /\ size = 0
    /\ rsPos = 0
    /\ buffered = 0
    /\ anchor = 0
    /\ consumed = 0
    /\ ral = Idle
    /\ ralResult = NoResult
    /\ got = NoValue

ParserAtRest ==
    /\ xrefs = <<>>
    /\ objs = [o \in Offsets |-> IndirectObject(12, "int", MakeInteger(0))]
    /\ stack = <<>>
    /\ inProgress = {}
    /\ parse = NoParse
    /\ traced = NoTrace

\* the stream codec pipeline on one stream object
Init == InitStream /\ ReaderAtRest /\ ParserAtRest /\ InitPath

Next == NextStream

Spec == Init /\ [][Next]_vars

\* the positional reader over one byte source
ReaderInit == InitReader /\ StreamAtRest /\ ParserAtRest /\ InitPath

SpecReader == ReaderInit /\ [][NextReader]_vars

\* the parser over one document; a call that has begun runs to its end
ParserInit == InitParser /\ StreamAtRest /\ ReaderAtRest /\ InitPath

SpecParser == ParserInit /\ [][NextParser]_vars /\ WF_vars(ParseStep)

\* a caller building and moving paths
PathInit == InitPath /\ StreamAtRest /\ ReaderAtRest /\ ParserAtRest

SpecPath == PathInit /\ [][NextPath]_vars

-----------------------------------------------------------------------------
(* The claims *)

\* C1: when EncodeStream returns an error, the stream object is exactly as it
\* was before the call: the payload and every dictionary entry.
C1_FailedEncodeLeavesStreamUnmodified ==
    (last.op = "EncodeStream" /\ last.outcome = "err")
        => (dict = last.preDict /\ Stream = last.preStream)

\* the Filter entry is a Name, or a one-element array holding a Name, that is
\* not a recognized filter name
UnknownFilter(f) ==
    \/ f.kind = "Name" /\ f.name \notin RecognizedNames
    \/ /\ f.kind = "Array"
       /\ Len(f.elems) = 1
       /\ f.elems[1].kind = "Name"
       /\ f.elems[1].name \notin RecognizedNames

\* C2: for a stream whose Filter is an unrecognized Name, NewEncoderFromStream,
\* DecodeStream and EncodeStream return an error; the call never aborts.
C2_UnknownNameReturnsError ==
    (last.op # "none" /\ UnknownFilter(last.preDict["Filter"]))
        => last.outcome = "err"

\* the Filter entry names LZW: as a bare Name or as a member of an array
SelectsLZW(f) ==
    \/ f.kind = "Name" /\ f.name = StreamEncodingFilterNameLZW
    \/ /\ f.kind = "Array"
       /\ \E i \in 1..Len(f.elems) :
              f.elems[i] = MakeName(StreamEncodingFilterNameLZW)

\* C6: after EncodeStream on a stream whose Filter selects LZW (bare Name, sole
\* member of an array, or one filter of a longer array) and whose encoder was
\* built, the EarlyChange entry is the literal integer 0.
C6_LZWEncodeForcesEarlyChange ==
    (last.op = "EncodeStream" /\ last.enc # NoEncoder
        /\ SelectsLZW(last.preDict["Filter"]))
        => dict["EarlyChange"] = MakeInteger(0)

\* C8: after an EncodeStream call that returns no error, the payload is the
\* selected encoder's EncodeBytes output for the pre-call payload and Length is
\* the literal integer byte length of the new payload.
C8_SuccessfulEncodeStoresPayloadAndLength ==
    (last.op = "EncodeStream" /\ last.outcome = "ok")
        => /\ Stream = EncodeBytes(last.enc, last.preStream, TRUE).out
           /\ EncodeBytes(last.enc, last.preStream, TRUE).ok
           /\ Stream = last.out
           /\ dict["Length"] = MakeInteger(Len(Stream))

\* a successful encode through a real codec of a stream whose Length was a
\* Reference
C8_Witness ==
    /\ last.op = "EncodeStream"
    /\ last.outcome = "ok"
    /\ last.preDict["Length"].kind = "Reference"
    /\ last.enc.name = StreamEncodingFilterNameASCIIHex
    /\ Len(Stream) > Len(last.preStream)
    /\ last.preStream # <<>>

\* the Filter entry is absent, Null or an empty array
RawFilter(f) == f = NilObj \/ f.kind = "Null" \/ (f.kind = "Array" /\ f.elems = <<>>)

\* C9: with Filter absent, Null or an empty array, NewEncoderFromStream returns
\* the Raw encoder with no error, DecodeStream returns the stored payload
\* unchanged, and decoding after encoding gives back the original bytes.
C9_RawSelectionAndRoundTrip ==
    (last.op # "none" /\ RawFilter(last.preDict["Filter"]))
        => /\ last.outcome = "ok"
           /\ last.enc = NewRawEncoder
           /\ last.op = "DecodeStream" => last.out = last.preStream
           /\ last.op = "EncodeStream" =>
                  \A built \in BOOLEAN, codecOk \in BOOLEAN :
                      LET back == DecodeStreamResult(dict, Stream, built, codecOk)
                      IN  back.outcome = "ok" /\ back.out = last.preStream

\* an encode of a non-empty payload under an empty Filter array
C9_Witness ==
    /\ last.op = "EncodeStream"
    /\ last.preDict["Filter"] = MakeArray(<<>>)
    /\ last.preStream # <<>>
    /\ last.outcome = "ok"

\* C5 as stated: GetFileOffset is the offset of the last SetFileOffset plus the
\* bytes consumed since, whatever the offset was and whatever is buffered.
C5_OffsetAfterAnySeek ==
    /\ GetFileOffset = anchor + consumed
    /\ got.valid => got.value = anchor + consumed

\* C5 amended: the same, for a last SetFileOffset whose offset is not negative.
C5_OffsetAfterSeekFromStart ==
    anchor >= 0 =>
        /\ GetFileOffset = anchor + consumed
        /\ got.valid => got.value = anchor + consumed

\* GetFileOffset called after a seek and a read, with bytes still buffered
C5_Witness ==
    /\ got.valid
    /\ anchor > 0
    /\ consumed > 0
    /\ buffered > 0

\* C7 as stated: ReadAtLeast returns without error only with exactly n bytes.
C7_ReturnsExactlyN ==
    (ralResult.valid /\ ralResult.err = NoError) => ralResult.count = ralResult.n

\* C7 amended: ReadAtLeast, with len(p) >= n, returns without error only when
\* at least n and at most len(p) bytes were obtained, and returns an error,
\* with fewer than n bytes counted, when the source fails before that.
C7_ReturnsAtLeastN ==
    ralResult.valid =>
        /\ ralResult.failed <=> ralResult.err # NoError
        /\ ralResult.err = NoError =>
               ralResult.count >= ralResult.n /\ ralResult.count <= ralResult.plen
        /\ ralResult.err # NoError => ralResult.count < ralResult.n

\* a call that took more than one round and returned more than n bytes
C7_Witness ==
    /\ ralResult.valid
    /\ ralResult.err = NoError
    /\ ralResult.n > 1
    /\ ralResult.count > ralResult.n

\* the stream stored at off has a Length reference that resolves to off itself
SelfLength(off) ==
    /\ off \in Offsets
    /\ objs[off].kind = "stream"
    /\ objs[off].length.kind = "Reference"
    /\ Lookup(objs[off].length.num) = off

\* C3: parsing an indirect stream object whose Length reference resolves back
\* to the object being parsed always ends, and ends in an error.
C3_SelfLengthParseFails ==
    (parse.state = "parsing" /\ parse.via = "parse" /\ SelfLength(parse.top))
        ~> (parse.state = "done" /\ parse.err = "Illegal recursive loop"
                /\ stack = <<>>)

\* the aliasing case has ended in an error: the Length reference carries
\* another object number than the stream it resolves to
C3_Witness ==
    /\ parse.state = "done"
    /\ parse.via = "parse"
    /\ SelfLength(parse.top)
    /\ objs[parse.top].length.num # objs[parse.top].num
    /\ parse.err # NoError

\* C4: Trace of a Reference whose object number the index does not hold
\* returns the Null object and no error.
C4_DanglingReferenceIsNull ==
    (traced.valid /\ traced.arg.kind = "Reference"
        /\ traced.arg.num \notin DOMAIN xrefs)
        => (traced.obj = MakeNull /\ traced.err = NoError)

\* Trace of object number -1 against an empty index has returned
C4_Witness ==
    /\ traced.valid
    /\ traced.arg = MakeReference(-1)
    /\ DOMAIN xrefs = {}

\* C10: Offset returns a copy of the path with every curve translated; the
\* path it was called on still holds its original curves.
C10_OffsetLeavesReceiver ==
    lastPath.op = "Offset" =>
        /\ CurvesOf(heap, lastPath.result) =
               [i \in 1..Len(lastPath.preCurves) |->
                   AddOffsetXY(lastPath.preCurves[i], lastPath.dX, lastPath.dY)]
        /\ CurvesOf(heap, lastPath.recv) = lastPath.preCurves

====
